---------------------------- MODULE Spec2Model ----------------------------
(***************************************************************************)
(* Model of hierarchical_clustering_lib.py: class HierarchicalClustering   *)
(* (return cache, distance matrix, minimum spanning tree, predecessor      *)
(* table, ultrametric distance matrix).                                    *)
(*                                                                         *)
(* Representation.                                                         *)
(*  - A ticker label is a string.  A DataFrame indexed by labels is a      *)
(*    record [labels |-> sequence of labels, values |-> function on        *)
(*    <<row position, column position>>]; positions are 1..n where numpy   *)
(*    and scipy use 0..n-1.                                                *)
(*  - A return table (the DataFrame yf.download gives) is kept as the      *)
(*    columns it has, the columns that contain NaN, and the pairwise       *)
(*    correlation of its columns in eighths (corr = 8 is rho = 1).         *)
(*  - A distance is kept in halves: the value 3 is the distance 1.5.       *)
(*    With rho = c/8, sqrt(2*(1-rho)) = sqrt(8-c)/2, so the distance in    *)
(*    halves is sqrt(8-c).                                                 *)
(*  - NaN is the number -1 (no distance is negative); the predecessor      *)
(*    sentinel -9999 is kept as it is while the table holds positions and  *)
(*    becomes the string "-9999" once positions are replaced by labels.    *)
(***************************************************************************)
EXTENDS Integers, Sequences, FiniteSets, TLC

VARIABLES tickers, cache, fetches, market, ret

vars == <<tickers, cache, fetches, market, ret>>

(***************************************************************************)
(* Bounds of the model.                                                    *)
(***************************************************************************)
\* the largest number of tickers of a pipeline run
MaxN == 3
\* the largest distance (in halves) of a pipeline run
MaxW == 2
\* the cap on the downloads of one session
MaxFetch == 2

(***************************************************************************)
(* Values of the program.                                                  *)
(***************************************************************************)
\* the "1" of 1 - corr, at the scale of the model (eighths)
CorrOne == 8
\* numpy's nan
NaN == -1
\* scipy's "no predecessor", as dijkstra returns it
NoPred == -9999
\* the same sentinel in the table of labels
NoPredLabel == "-9999"
\* end_date=None
None == "None"

\* the tickers the model knows, in the order yfinance sorts columns
Universe == <<"A", "B", "C", "D", "E">>

LabelRank(l) == CHOOSE k \in 1..Len(Universe) : Universe[k] = l

Range(s) == {s[k] : k \in 1..Len(s)}

\* F(v), with v evaluated once
With(v, F(_)) == CHOOSE r \in {F(x) : x \in {v}} : TRUE

Idx(n) == (1..n) \X (1..n)

Pos(frame, l) == CHOOSE k \in 1..Len(frame.labels) : frame.labels[k] = l

\* DataFrame.loc[a, b]
Loc(frame, a, b) == frame.values[<<Pos(frame, a), Pos(frame, b)>>]

\* x ** 0.5 on the squares the model uses (the floor elsewhere)
ISqrt(x) == CHOOSE r \in 0..x : r * r <= x /\ (r + 1) * (r + 1) > x

(***************************************************************************)
(* df.dropna(axis=1): the columns without NaN, in their order.             *)
(***************************************************************************)
KeptPositions(df) == SelectSeq([k \in 1..Len(df.cols) |-> k],
                               LAMBDA k : df.cols[k] \notin df.nans)

dropna(df) ==
    LET keep == KeptPositions(df)
    IN  [cols |-> [k \in 1..Len(keep) |-> df.cols[keep[k]]],
         nans |-> {},
         corr |-> [pq \in Idx(Len(keep)) |-> df.corr[<<keep[pq[1]], keep[pq[2]]>>]]]

(***************************************************************************)
(* distance_matrix: (2 * (1 - corr)) ** 0.5 of the cached table.           *)
(***************************************************************************)
DistanceOf(df) ==
    [labels |-> df.cols,
     values |-> [pq \in Idx(Len(df.cols)) |-> ISqrt(CorrOne - df.corr[pq])]]

(***************************************************************************)
(* minimum_spanning_tree: the masked matrix as a CSR matrix, scipy's       *)
(* Kruskal on it, the result as a dense frame.                             *)
(***************************************************************************)
\* d_matrix.mask(np.tril(np.ones(shape).astype(bool))): NaN on and below
\* the diagonal
MaskLower(d) ==
    [pq \in DOMAIN d.values |-> IF pq[1] >= pq[2] THEN NaN ELSE d.values[pq]]

\* csr_matrix(dense): the entries that are not 0 (NaN is not 0), row-major
RECURSIVE CsrFrom(_, _, _)
CsrFrom(vals, n, k) ==
    IF k >= n * n THEN <<>>
    ELSE LET r == (k \div n) + 1
             c == (k % n) + 1
             rest == CsrFrom(vals, n, k + 1)
         IN  IF vals[<<r, c>>] = 0 THEN rest
             ELSE <<[row |-> r, col |-> c, data |-> vals[<<r, c>>]]>> \o rest

csr_matrix(vals, n) == CsrFrom(vals, n, 0)

\* a sort that puts an element before its equals: not stable
SortsBeforeOrEqual(x, y) == x # NaN /\ (y = NaN \/ x <= y)

\* the order of np.argsort: numbers ascending, NaN last
SortsBefore(x, y) == x # NaN /\ (y = NaN \/ x < y)

\* the position at which a stable sort puts a new last element
RECURSIVE InsertAt(_, _, _, _)
InsertAt(data, sorted, j, k) ==
    IF k > Len(sorted) THEN Append(sorted, j)
    ELSE IF SortsBefore(data[j], data[sorted[k]])
         THEN SubSeq(sorted, 1, k - 1) \o <<j>> \o SubSeq(sorted, k, Len(sorted))
         ELSE InsertAt(data, sorted, j, k + 1)

RECURSIVE ArgsortFrom(_, _, _)
ArgsortFrom(data, sorted, j) ==
    IF j > Len(data) THEN sorted
    ELSE ArgsortFrom(data, InsertAt(data, sorted, j, 1), j + 1)

\* the edges left in the order of the CSR matrix: no sort
argsortNone(data) == [k \in 1..Len(data) |-> k]

\* np.argsort(data, kind='stable')
argsort(data) == ArgsortFrom(data, <<>>, 1)

\* the head node of the subtree of v
RECURSIVE HeadNode(_, _)
HeadNode(predecessors, v) ==
    IF predecessors[v] = v THEN v ELSE HeadNode(predecessors, predecessors[v])

\* one edge of _min_spanning_tree's loop, on the state
\* [data, predecessors, rank, n_edges]
KruskalStep(st, e, j) ==
    LET R1 == HeadNode(st.predecessors, e.row)
        R2 == HeadNode(st.predecessors, e.col)
        compressed == [st.predecessors EXCEPT ![e.row] = R1, ![e.col] = R2]
    IN  IF R1 # R2
        THEN [data |-> st.data,
              n_edges |-> st.n_edges + 1,
              predecessors |->
                  IF st.rank[R1] < st.rank[R2]
                  THEN [compressed EXCEPT ![R1] = R2]
                  ELSE [compressed EXCEPT ![R2] = R1],
              rank |->
                  IF st.rank[R1] = st.rank[R2]
                  THEN [st.rank EXCEPT ![R1] = @ + 1]
                  ELSE st.rank]
        ELSE [st EXCEPT !.data[j] = 0, !.predecessors = compressed]

RECURSIVE KruskalLoop(_, _, _, _, _)
KruskalLoop(st, entries, i_sort, i, n) ==
    IF i > Len(i_sort) THEN st
    ELSE IF st.n_edges < n - 1
         THEN KruskalLoop(KruskalStep(st, entries[i_sort[i]], i_sort[i]),
                          entries, i_sort, i + 1, n)
         \* a full tree was found: the rest is zeroed
         ELSE KruskalLoop([st EXCEPT !.data[i_sort[i]] = 0],
                          entries, i_sort, i + 1, n)

\* scipy.sparse.csgraph.minimum_spanning_tree(csgraph).toarray()
csgraph_minimum_spanning_tree(entries, n) ==
    LET data0 == [k \in 1..Len(entries) |-> entries[k].data]
        st0 == [data |-> data0,
                n_edges |-> 0,
                predecessors |-> [v \in 1..n |-> v],
                rank |-> [v \in 1..n |-> 0]]
    IN  With(KruskalLoop(st0, entries, argsort(data0), 1, n), LAMBDA fin :
            [pq \in Idx(n) |->
                IF \E k \in 1..Len(entries) :
                       entries[k].row = pq[1] /\ entries[k].col = pq[2]
                THEN LET k == CHOOSE k \in 1..Len(entries) :
                                  entries[k].row = pq[1] /\ entries[k].col = pq[2]
                     IN  fin.data[k]
                ELSE 0])

MstOf(d) ==
    With(csr_matrix(MaskLower(d), Len(d.labels)), LAMBDA csgraph :
        [labels |-> d.labels,
         values |-> csgraph_minimum_spanning_tree(csgraph, Len(d.labels))])

(***************************************************************************)
(* predecessors_matrix: scipy's dijkstra on the tree, from every source,   *)
(* then the positions replaced by labels.                                  *)
(***************************************************************************)
\* _dijkstra_scan_heap on one stored edge v -> j of weight w (w = 0: no
\* entry).  next_val <= limit is false for a NaN next_val.
Relax(ds, v, j, w) ==
    IF w = 0 \/ ds.state[j] = "SCANNED" \/ w = NaN
    THEN ds
    ELSE LET next_val == ds.val[v] + w
         IN  IF ds.state[j] = "NOT_IN_HEAP"
             THEN [state |-> [ds.state EXCEPT ![j] = "IN_HEAP"],
                   val |-> [ds.val EXCEPT ![j] = next_val],
                   pred |-> [ds.pred EXCEPT ![j] = v]]
             ELSE IF ds.val[j] > next_val
                  THEN [ds EXCEPT !.val[j] = next_val, !.pred[j] = v]
                  ELSE ds

\* the scan of row v of the CSR matrix (forward), or of its transpose
RECURSIVE ScanRow(_, _, _, _, _, _)
ScanRow(ds, m, n, v, j, forward) ==
    IF j > n THEN ds
    ELSE ScanRow(Relax(ds, v, j, IF forward THEN m[<<v, j>>] ELSE m[<<j, v>>]),
                 m, n, v, j + 1, forward)

\* the node remove_min gives: the least value in the heap
MinNode(ds, n) ==
    CHOOSE v \in 1..n :
        /\ ds.state[v] = "IN_HEAP"
        /\ \A u \in 1..n : ds.state[u] = "IN_HEAP" =>
              \/ ds.val[v] < ds.val[u]
              \/ ds.val[v] = ds.val[u] /\ v <= u

RECURSIVE DijkstraLoop(_, _, _, _)
DijkstraLoop(ds, m, n, directed) ==
    IF \A v \in 1..n : ds.state[v] # "IN_HEAP" THEN ds
    ELSE LET v == MinNode(ds, n)
             scanned == [ds EXCEPT !.state[v] = "SCANNED"]
             fwd == ScanRow(scanned, m, n, v, 1, TRUE)
         IN  DijkstraLoop(IF directed THEN fwd
                          ELSE ScanRow(fwd, m, n, v, 1, FALSE),
                          m, n, directed)

\* dijkstra(csgraph=csr_matrix(m), directed=..., return_predecessors=True)[1]
dijkstra(m, n, directed) ==
    With([i \in 1..n |->
             DijkstraLoop([state |-> [v \in 1..n |->
                              IF v = i THEN "IN_HEAP" ELSE "NOT_IN_HEAP"],
                           val |-> [v \in 1..n |-> 0],
                           pred |-> [v \in 1..n |-> NoPred]],
                          m, n, directed).pred],
         LAMBDA from : [ij \in Idx(n) |-> from[ij[1]][ij[2]]])

\* predecessors.replace(dict(zip(range(n), predecessors.columns)))
ReplaceByLabel(x, labels) ==
    IF x \in 1..Len(labels) THEN labels[x] ELSE NoPredLabel

\* dijkstra called with directed=True on the upper-triangular tree
PredecessorsOfDirected(mst) ==
    LET n == Len(mst.labels)
    IN  With(dijkstra(mst.values, n, TRUE), LAMBDA predecessors :
            [labels |-> mst.labels,
             values |-> [ij \in Idx(n) |->
                            ReplaceByLabel(predecessors[ij], mst.labels)]])

PredecessorsOf(mst) ==
    LET n == Len(mst.labels)
    IN  With(dijkstra(mst.values, n, FALSE), LAMBDA predecessors :
            [labels |-> mst.labels,
             values |-> [ij \in Idx(n) |->
                            ReplaceByLabel(predecessors[ij], mst.labels)]])

(***************************************************************************)
(* find_path_between_stocks.  lookups counts the evaluations of the loop   *)
(* condition, one per predecessor followed.  A walk of more steps than     *)
(* there are labels has come back to a label and never ends.               *)
(***************************************************************************)
RECURSIVE WalkBack(_, _, _, _, _)
WalkBack(go_from, go_to, predecessors, path, lookups) ==
    LET p == Loc(predecessors, go_from, go_to)
    IN  IF go_from = p
        THEN [status |-> "ok", path |-> path, lookups |-> lookups + 1]
        ELSE IF p \notin Range(predecessors.labels)
        THEN [status |-> "KeyError", path |-> path, lookups |-> lookups + 1]
        ELSE IF lookups >= Len(predecessors.labels)
        THEN [status |-> "diverges", path |-> path, lookups |-> lookups + 1]
        ELSE WalkBack(go_from, p, predecessors, Append(path, p), lookups + 1)

Reverse(s) == [k \in 1..Len(s) |-> s[Len(s) + 1 - k]]

find_path_between_stocks(go_from, go_to, predecessors) ==
    IF Loc(predecessors, go_from, go_to) = NoPredLabel
    THEN [status |-> "Exception", steps |-> <<>>, lookups |-> 0]
    ELSE With(WalkBack(go_from, go_to, predecessors, <<go_to>>, 0), LAMBDA w :
             With(Reverse(Append(w.path, go_from)), LAMBDA path :
                 [status |-> w.status,
                  steps |-> [k \in 1..(Len(path) - 1) |-> <<path[k], path[k + 1]>>],
                  lookups |-> w.lookups]))

(***************************************************************************)
(* The body of ultrametric_distance_matrix, given d_matrix and the         *)
(* predecessor table.                                                      *)
(***************************************************************************)
Max(S) == CHOOSE x \in S : \A y \in S : y <= x

\* the length of the path instead of its longest step
RECURSIVE PathSumFrom(_, _, _)
PathSumFrom(d_matrix, steps, k) ==
    IF k > Len(steps) THEN 0
    ELSE Loc(d_matrix, steps[k][1], steps[k][2]) + PathSumFrom(d_matrix, steps, k + 1)

PathSum(d_matrix, steps) == PathSumFrom(d_matrix, steps, 1)

\* max(steps_length)
PathMax(d_matrix, steps) ==
    Max({Loc(d_matrix, steps[k][1], steps[k][2]) : k \in 1..Len(steps)})

\* the pairs on which the loops call find_path_between_stocks
PathPairs(d_matrix) ==
    {ij \in Idx(Len(d_matrix.labels)) : ij[1] # ij[2]}

\* the diagonal left as np.full(..., np.nan) made it
FillDiagonalNone(vals) == vals

\* np.fill_diagonal(ultra_dist.values, 0)
FillDiagonal(vals) == [ij \in DOMAIN vals |-> IF ij[1] = ij[2] THEN 0 ELSE vals[ij]]

\* the first pair, in the order of the loops, whose path walk fails
FirstFailure(walks, n) ==
    CHOOSE ij \in DOMAIN walks :
        /\ walks[ij].status # "ok"
        /\ \A kl \in DOMAIN walks : walks[kl].status # "ok" =>
              (ij[1] - 1) * n + ij[2] <= (kl[1] - 1) * n + kl[2]

UltraOf(d_matrix, predecessors) ==
    LET n == Len(d_matrix.labels)
        L == d_matrix.labels
    IN  With([ij \in PathPairs(d_matrix) |->
                 find_path_between_stocks(L[ij[1]], L[ij[2]], predecessors)],
             LAMBDA walks :
        IF \E ij \in DOMAIN walks : walks[ij].status # "ok"
        THEN [status |-> walks[FirstFailure(walks, n)].status,
              labels |-> L, values |-> <<>>, walks |-> walks]
        ELSE [status |-> "returned",
              labels |-> L,
              values |-> FillDiagonal(
                  [ij \in Idx(n) |->
                      IF ij \in DOMAIN walks
                      THEN PathMax(d_matrix, walks[ij].steps)
                      ELSE NaN]),
              walks |-> walks])

(***************************************************************************)
(* The external source.  yf.download(tickers, start, end)['Adj Close']     *)
(* gives one column per ticker, sorted by label, whatever the order of     *)
(* self.tickers.                                                           *)
(***************************************************************************)
SortedCols(tk) == SelectSeq(Universe, LAMBDA l : l \in Range(tk))

UpperPairs(n) == {pq \in Idx(n) : pq[1] < pq[2]}

\* the return table whose columns are at the distances w (in halves)
TableOf(cols, nans, w) ==
    [cols |-> cols,
     nans |-> nans,
     corr |-> [pq \in Idx(Len(cols)) |->
                  IF pq[1] = pq[2] THEN CorrOne
                  ELSE IF pq[1] < pq[2] THEN CorrOne - w[pq] * w[pq]
                  ELSE CorrOne - w[<<pq[2], pq[1]>>] * w[<<pq[2], pq[1]>>]]]

\* a pipeline run: every table of complete series at distances 0..MaxW
AnyTable(tk) ==
    {TableOf(SortedCols(tk), {}, w) : w \in [UpperPairs(Len(tk)) -> 0..MaxW]}

\* a session: the source has two tables (the data as first published and as
\* revised); the last ticker's series has NaN in both
Versions == {0, 1}

TableVersion(tk, v) ==
    LET cols == SortedCols(tk)
    IN  TableOf(cols, {cols[Len(cols)]},
                [pq \in UpperPairs(Len(cols)) |-> 1 + ((pq[1] + pq[2] + v) % 2)])

SessionTables(tk) == {TableVersion(tk, v) : v \in Versions}

(***************************************************************************)
(* The methods.  Each takes the instance (tickers, cache, and the count of *)
(* downloads per key) and what the source would answer if asked, and       *)
(* gives the instance after the call and the value returned.               *)
(***************************************************************************)
CountOf(f, key) == IF key \in DOMAIN f THEN f[key] ELSE 0

\* the download counted and returned but not stored
download_returnsNoStore(self, start_date, end_date, drop_series_with_nans, answer) ==
    LET cache_key == <<self.tickers, start_date, end_date, drop_series_with_nans>>
    IN  IF cache_key \in DOMAIN self.cache
        THEN [self |-> self, df |-> self.cache[cache_key]]
        ELSE [self |-> [self EXCEPT
                           !.fetches = (cache_key :> CountOf(self.fetches, cache_key) + 1)
                                       @@ self.fetches],
              df |-> IF drop_series_with_nans THEN dropna(answer) ELSE answer]

download_returns(self, start_date, end_date, drop_series_with_nans, answer) ==
    LET cache_key == <<self.tickers, start_date, end_date, drop_series_with_nans>>
    IN  IF cache_key \in DOMAIN self.cache
        THEN [self |-> self, df |-> self.cache[cache_key]]
        ELSE LET df == IF drop_series_with_nans THEN dropna(answer) ELSE answer
             IN  [self |-> [self EXCEPT
                               !.cache = (cache_key :> df) @@ self.cache,
                               !.fetches = (cache_key :> CountOf(self.fetches, cache_key) + 1)
                                           @@ self.fetches],
                      df |-> df]

distance_matrix(self, start_date, end_date, answer) ==
    With(download_returns(self, start_date, end_date, TRUE, answer), LAMBDA r :
        [self |-> r.self, df |-> r.df, value |-> DistanceOf(r.df)])

minimum_spanning_tree(self, start_date, end_date, answer) ==
    With(distance_matrix(self, start_date, end_date, answer), LAMBDA r :
        [self |-> r.self, df |-> r.df, value |-> MstOf(r.value)])

predecessors_matrix(self, start_date, end_date, answer) ==
    With(minimum_spanning_tree(self, start_date, end_date, answer), LAMBDA r :
        [self |-> r.self, df |-> r.df, value |-> PredecessorsOf(r.value)])

\* a call that starts from an empty cache
ultrametric_distance_matrixFreshCache(self, start_date, end_date, answer1, answer2) ==
    With(distance_matrix([self EXCEPT !.cache = <<>>], start_date, end_date, answer1),
         LAMBDA d :
        With(predecessors_matrix(d.self, start_date, end_date, answer2), LAMBDA p :
            [self |-> p.self, d_df |-> d.df, p_df |-> p.df,
             value |-> UltraOf(d.value, p.value)]))

\* answer1 and answer2: what the source would answer at the first and at the
\* second download_returns of the call
ultrametric_distance_matrix(self, start_date, end_date, answer1, answer2) ==
    With(distance_matrix(self, start_date, end_date, answer1), LAMBDA d :
        With(predecessors_matrix(d.self, start_date, end_date, answer2), LAMBDA p :
            [self |-> p.self, d_df |-> d.df, p_df |-> p.df,
             value |-> UltraOf(d.value, p.value)]))

(***************************************************************************)
(* The state machine: one instance and its caller.  market is the set of   *)
(* tables the source may answer a download with; ret is the last call and  *)
(* what it returned (downloads: the downloads the call made).              *)
(***************************************************************************)
Instance == [tickers |-> tickers, cache |-> cache, fetches |-> fetches]

RECURSIVE SumOver(_, _)
SumOver(f, keys) ==
    IF keys = {} THEN 0
    ELSE LET k == CHOOSE k \in keys : TRUE
         IN  f[k] + SumOver(f, keys \ {k})

Downloads(f) == SumOver(f, DOMAIN f)

Returns(op, start_date, end_date, drop, self, status, value, d_df, p_df) ==
    /\ Downloads(self.fetches) <= MaxFetch
    /\ cache' = self.cache
    /\ fetches' = self.fetches
    /\ ret' = [op |-> op, tickers |-> tickers, start_date |-> start_date,
               end_date |-> end_date, drop |-> drop,
               downloads |-> Downloads(self.fetches) - Downloads(fetches),
               status |-> status, value |-> value,
               d_df |-> d_df, p_df |-> p_df]
    /\ UNCHANGED <<tickers, market>>

CallDownloadReturns(start_date, end_date, drop) ==
    \E a \in market :
        \E r \in {download_returns(Instance, start_date, end_date, drop, a)} :
            Returns("download_returns", start_date, end_date, drop,
                    r.self, "returned", r.df, r.df, r.df)

CallDistanceMatrix(start_date, end_date) ==
    \E a \in market :
        \E r \in {distance_matrix(Instance, start_date, end_date, a)} :
            Returns("distance_matrix", start_date, end_date, TRUE,
                    r.self, "returned", r.value, r.df, r.df)

CallMinimumSpanningTree(start_date, end_date) ==
    \E a \in market :
        \E r \in {minimum_spanning_tree(Instance, start_date, end_date, a)} :
            Returns("minimum_spanning_tree", start_date, end_date, TRUE,
                    r.self, "returned", r.value, r.df, r.df)

CallPredecessorsMatrix(start_date, end_date) ==
    \E a \in market :
        \E r \in {predecessors_matrix(Instance, start_date, end_date, a)} :
            Returns("predecessors_matrix", start_date, end_date, TRUE,
                    r.self, "returned", r.value, r.df, r.df)

\* a call that raises leaves the downloads it made in the cache
CallUltrametricDistanceMatrix(start_date, end_date) ==
    \E a1, a2 \in market :
        \E r \in {ultrametric_distance_matrix(Instance, start_date, end_date, a1, a2)} :
            Returns("ultrametric_distance_matrix", start_date, end_date, TRUE,
                    r.self, r.value.status, r.value, r.d_df, r.p_df)

\* the caller assigns the public attribute tickers
SetTickers(orders) ==
    /\ \E tk \in orders \ {tickers} : tickers' = tk
    /\ UNCHANGED <<cache, fetches, market, ret>>

NoCall == [op |-> "none", tickers |-> <<>>, start_date |-> "", end_date |-> "",
           drop |-> TRUE, downloads |-> 0, status |-> "", value |-> <<>>,
           d_df |-> <<>>, p_df |-> <<>>]

(***************************************************************************)
(* Spec: a session on one instance.  The caller reorders the tickers and   *)
(* calls the methods with two start dates; the source answers a download   *)
(* with either of its tables.                                              *)
(***************************************************************************)
StartDates == {"2020-01-01", "2021-01-01"}

SessionOrders == {<<"A", "B", "C">>, <<"C", "B", "A">>}

Init == /\ tickers = <<"A", "B", "C">>
        /\ cache = <<>>
        /\ fetches = <<>>
        /\ market = SessionTables(tickers)
        /\ ret = NoCall

Next == \E s \in StartDates :
            \/ \E drop \in BOOLEAN : CallDownloadReturns(s, None, drop)
            \/ CallDistanceMatrix(s, None)
            \/ CallMinimumSpanningTree(s, None)
            \/ CallPredecessorsMatrix(s, None)
            \/ CallUltrametricDistanceMatrix(s, None)
            \/ SetTickers(SessionOrders)

Spec == Init /\ [][Next]_vars

(***************************************************************************)
(* SpecPipeline: the pipeline on every distance matrix.  A fresh instance  *)
(* of 2..MaxN tickers; the source has one table, any table of complete     *)
(* series at distances 0..MaxW.                                            *)
(***************************************************************************)
PipelineDate == "2020-01-01"

InitPipeline ==
    /\ \E n \in 2..MaxN : tickers = SubSeq(Universe, 1, n)
    /\ cache = <<>>
    /\ fetches = <<>>
    /\ \E t \in AnyTable(tickers) : market = {t}
    /\ ret = NoCall

NextPipeline ==
    \/ CallDownloadReturns(PipelineDate, None, TRUE)
    \/ CallDistanceMatrix(PipelineDate, None)
    \/ CallMinimumSpanningTree(PipelineDate, None)
    \/ CallPredecessorsMatrix(PipelineDate, None)
    \/ CallUltrametricDistanceMatrix(PipelineDate, None)

SpecPipeline == InitPipeline /\ [][NextPipeline]_vars

(***************************************************************************)
(* Graphs on the positions 1..n, for the statements below.  An edge is a   *)
(* pair <<p, q>> and is undirected.                                        *)
(***************************************************************************)
RECURSIVE ReachFrom(_, _)
ReachFrom(E, S) ==
    LET T == S \cup {e[2] : e \in {f \in E : f[1] \in S}}
                \cup {e[1] : e \in {f \in E : f[2] \in S}}
    IN  IF T = S THEN S ELSE ReachFrom(E, T)

Connected(n, E) == ReachFrom(E, {1}) = 1..n

Acyclic(E) == \A e \in E : e[2] \notin ReachFrom(E \ {e}, {e[1]})

SpanningTrees(n) ==
    {T \in SUBSET UpperPairs(n) : Cardinality(T) = n - 1 /\ Connected(n, T)}

RECURSIVE Weight(_, _)
Weight(vals, E) ==
    IF E = {} THEN 0
    ELSE LET e == CHOOSE e \in E : TRUE
         IN  vals[e] + Weight(vals, E \ {e})

\* the entries of a dense matrix that are not 0, and those that are numbers
NonZero(vals) == {pq \in DOMAIN vals : vals[pq] # 0}
Finite(vals) == {pq \in DOMAIN vals : vals[pq] # 0 /\ vals[pq] # NaN}

\* the candidate edges of a distance matrix: the pairs of the upper triangle
\* that the sparse graph holds
Candidates(d) == {pq \in UpperPairs(Len(d.labels)) : d.values[pq] # 0}

AllPairsCandidate(d) == Candidates(d) = UpperPairs(Len(d.labels))

\* increasing (weight, row label, column label)
EdgeBefore(d, e, f) ==
    \/ d.values[e] < d.values[f]
    \/ /\ d.values[e] = d.values[f]
       /\ \/ LabelRank(d.labels[e[1]]) < LabelRank(d.labels[f[1]])
          \/ /\ d.labels[e[1]] = d.labels[f[1]]
             /\ LabelRank(d.labels[e[2]]) < LabelRank(d.labels[f[2]])

\* the tree grown by taking the candidate edges in that order, an edge being
\* kept when its ends are not yet joined
RECURSIVE GreedyTree(_, _, _)
GreedyTree(d, remaining, chosen) ==
    IF remaining = {} THEN chosen
    ELSE LET e == CHOOSE e \in remaining :
                      \A f \in remaining \ {e} : EdgeBefore(d, e, f)
         IN  GreedyTree(d, remaining \ {e},
                        IF e[2] \in ReachFrom(chosen, {e[1]})
                        THEN chosen ELSE chosen \cup {e})

\* the table the last call read, its distance matrix and its size
LastD == DistanceOf(ret.d_df)
LastN == Len(ret.d_df.cols)

ReturnedMst == ret.op = "minimum_spanning_tree"
ReturnedUltra == ret.op = "ultrametric_distance_matrix" /\ ret.status = "returned"

(***************************************************************************)
(* C1.  A returned ultrametric matrix U satisfies the strong triangle      *)
(* inequality: U(i,j) <= max(U(i,k), U(k,j)) for all labels i, j, k.       *)
(***************************************************************************)
C1_StrongTriangle ==
    ReturnedUltra =>
        \A i, j, k \in 1..LastN :
            ret.value.values[<<i, j>>]
                <= Max({ret.value.values[<<i, k>>], ret.value.values[<<k, j>>]})

\* a returned matrix over three labels whose distances break the inequality:
\* d(i,j) > max(d(i,k), d(k,j)) for some triple, and U(i,j) < d(i,j)
C1_Witness ==
    /\ ReturnedUltra
    /\ LastN >= 3
    /\ \E i, j, k \in 1..LastN :
           /\ i # j /\ j # k /\ i # k
           /\ LastD.values[<<i, j>>]
                > Max({LastD.values[<<i, k>>], LastD.values[<<k, j>>]})
           /\ ret.value.values[<<i, j>>] < LastD.values[<<i, j>>]

(***************************************************************************)
(* C2.  The returned matrix is dominated by the distances: for every       *)
(* symmetric, zero-diagonal, non-negative distance matrix d, off-diagonal  *)
(* zeros included, U(i,j) <= d(i,j) for all distinct i, j.                 *)
(***************************************************************************)
C2_Dominated ==
    ReturnedUltra =>
        \A i, j \in 1..LastN :
            i # j => ret.value.values[<<i, j>>] <= LastD.values[<<i, j>>]

(***************************************************************************)
(* C3.  When every pair of distinct labels is a candidate edge, the matrix *)
(* minimum_spanning_tree returns has exactly n-1 non-zero entries, they    *)
(* form an acyclic graph joining all n labels, and their total weight is   *)
(* at most that of every spanning tree of the complete graph.              *)
(***************************************************************************)
C3_MinimumSpanningTree ==
    (ReturnedMst /\ AllPairsCandidate(LastD)) =>
        With(NonZero(ret.value.values), LAMBDA E :
            /\ Cardinality(E) = LastN - 1
            /\ Acyclic(E)
            /\ Connected(LastN, E)
            /\ \A T \in SpanningTrees(LastN) :
                   Weight(ret.value.values, E) <= Weight(LastD.values, T))

\* a tree over three labels at three positive distances, not all equal
C3_Witness ==
    /\ ReturnedMst
    /\ AllPairsCandidate(LastD)
    /\ LastN >= 3
    /\ \E T \in SpanningTrees(LastN) :
           Weight(ret.value.values, NonZero(ret.value.values)) < Weight(LastD.values, T)

(***************************************************************************)
(* C4.  A returned ultrametric matrix is symmetric with a zero diagonal,   *)
(* and the path reconstruction was never called on equal endpoints.        *)
(***************************************************************************)
C4_SymmetricZeroDiagonal ==
    ReturnedUltra =>
        /\ \A i, j \in 1..LastN :
               ret.value.values[<<i, j>>] = ret.value.values[<<j, i>>]
        /\ \A i \in 1..LastN : ret.value.values[<<i, i>>] = 0
        /\ \A ij \in DOMAIN ret.value.walks : ij[1] # ij[2]

\* a returned matrix in which some path has two steps, so that row i and
\* row j of the predecessor table lead to (i,j) and (j,i) differently
C4_Witness ==
    /\ ReturnedUltra
    /\ \E ij \in DOMAIN ret.value.walks : Len(ret.value.walks[ij].steps) >= 2
    /\ \E i, j \in 1..LastN : i # j /\ ret.value.values[<<i, j>>] > 0

(***************************************************************************)
(* C5.  When the graph given to the MST builder is not connected, the MST  *)
(* stage fails with DisconnectedGraphError: minimum_spanning_tree returns  *)
(* no matrix for it.                                                       *)
(***************************************************************************)
C5_DisconnectedRaises ==
    (ReturnedMst /\ ~Connected(LastN, Candidates(LastD))) =>
        ret.status = "DisconnectedGraphError"

Visited(steps) ==
    [k \in 1..(Len(steps) + 1) |-> IF k = 1 THEN steps[1][1] ELSE steps[k - 1][2]]

IsTreePath(steps, i, j, L, E) ==
    /\ Len(steps) >= 1
    /\ steps[1][1] = L[i]
    /\ steps[Len(steps)][2] = L[j]
    /\ \A k \in 1..(Len(steps) - 1) : steps[k][2] = steps[k + 1][1]
    /\ \A k, l \in 1..(Len(steps) + 1) :
           k # l => Visited(steps)[k] # Visited(steps)[l]
    /\ \A k \in 1..Len(steps) :
           \E e \in E : {L[e[1]], L[e[2]]} = {steps[k][1], steps[k][2]}

C9_PathReconstruction ==
    (ret.op = "ultrametric_distance_matrix"
        /\ Connected(LastN, Finite(MstOf(LastD).values))) =>
        /\ ret.status = "returned"
        /\ With(Finite(MstOf(LastD).values), LAMBDA E :
               \A ij \in PathPairs(LastD) :
                   /\ ij \in DOMAIN ret.value.walks
                   /\ ret.value.walks[ij].status = "ok"
                   /\ ret.value.walks[ij].lookups <= LastN - 1
                   /\ IsTreePath(ret.value.walks[ij].steps, ij[1], ij[2],
                                 LastD.labels, E))

\* a path that follows n-1 predecessors, over at least three labels
C9_Witness ==
    /\ ReturnedUltra
    /\ LastN >= 3
    /\ \E ij \in DOMAIN ret.value.walks :
           ret.value.walks[ij].lookups = LastN - 1

(***************************************************************************)
(* Statements about the session (Spec).                                    *)
(***************************************************************************)
KeyOf(r) == <<r.tickers, r.start_date, r.end_date, r.drop>>

(***************************************************************************)
(* C7.  Idempotence: a call of ultrametric_distance_matrix and the next    *)
(* call of it with the same tickers and dates give the same result,        *)
(* whatever the source would answer to a new download.                     *)
(***************************************************************************)
C7_Idempotent ==
    [][(/\ ret.op = "ultrametric_distance_matrix"
        /\ ret'.op = "ultrametric_distance_matrix"
        /\ KeyOf(ret') = KeyOf(ret))
       => ret'.value = ret.value]_vars

\* a returned matrix from a call that downloaded nothing, while the source
\* has another table to answer with
C7_Witness ==
    /\ ReturnedUltra
    /\ ret.downloads = 0
    /\ \E t \in market : dropna(t) # ret.d_df

(***************************************************************************)
(* C8.  The cache is looked up by the label set whatever its order: the    *)
(* downloads for one label set, start date, end date and missing-data      *)
(* policy number at most one.                                              *)
(***************************************************************************)
SameUnordered(k1, k2) ==
    /\ Range(k1[1]) = Range(k2[1])
    /\ k1[2] = k2[2] /\ k1[3] = k2[3] /\ k1[4] = k2[4]

C8_OrderIndependentKey ==
    \A k \in DOMAIN fetches :
        SumOver(fetches, {k2 \in DOMAIN fetches : SameUnordered(k, k2)}) <= 1

(***************************************************************************)
(* C10.  At most one download per key (tuple(self.tickers), start_date,    *)
(* end_date, drop_series_with_nans); a stored entry is never removed or    *)
(* replaced; a call whose key is stored returns the stored table and       *)
(* downloads nothing; one ultrametric_distance_matrix call downloads at    *)
(* most once and takes its distances and its predecessor table from the    *)
(* same return table.                                                      *)
(***************************************************************************)
C10_State ==
    /\ \A k \in DOMAIN fetches : fetches[k] <= 1
    /\ DOMAIN fetches = DOMAIN cache
    /\ ret.op # "none" =>
           /\ KeyOf(ret) \in DOMAIN cache
           /\ ret.d_df = cache[KeyOf(ret)]
           /\ ret.p_df = cache[KeyOf(ret)]
           /\ ret.downloads <= 1
    /\ ret.op = "download_returns" => ret.value = cache[KeyOf(ret)]

C10_Step ==
    /\ \A k \in DOMAIN cache : k \in DOMAIN cache' /\ cache'[k] = cache[k]
    /\ (tickers' = tickers /\ KeyOf(ret') \in DOMAIN cache) =>
           /\ fetches' = fetches
           /\ ret'.downloads = 0
           /\ ret'.d_df = cache[KeyOf(ret')]

C10_DownloadOncePerKey == [](C10_State) /\ [][C10_Step]_vars

\* an ultrametric call that made the one download of its key, a second key
\* being stored already
C10_Witness ==
    /\ ret.op = "ultrametric_distance_matrix"
    /\ ret.downloads = 1
    /\ Cardinality(DOMAIN cache) >= 2
=============================================================================
